---------------------------- MODULE Spec2Model ----------------------------
(***************************************************************************)
(* Model of the VRAM-aware Ollama dispatcher (Celery worker side).         *)
(*                                                                         *)
(*   src/worker/celery_app.py    process_ollama_request, ollama_stream,    *)
(*                               manage_model_loading                      *)
(*   src/utils/manage_models.py  load_or_queue_model,                      *)
(*                               select_models_to_offload,                 *)
(*                               cleanup_inactive_model_tracking           *)
(*   src/services/redis_client.py RedisLock                                *)
(*   src/services/cache.py       active_model:* / queued_model:* sets      *)
(*                                                                         *)
(* Each worker task is a process whose pc names the source line it is      *)
(* about to execute; one action is one interaction with Redis, Ollama or   *)
(* NVML together with the local code up to the next interaction.           *)
(***************************************************************************)
EXTENDS Integers, Sequences, FiniteSets, TLC

----------------------------------------------------------------------------
(* Bounds of the model *)

NumTasks == 2
MaxChunks == 1
TotalVram == 6
MaxSel == 3
MaxSize == 2
MaxReq == 4
MaxStream == 3

Tasks == 1..NumTasks

(* Models known to the runtime, in the order list()/ps() report them *)
ModelOrder == <<"A", "B", "C", "D">>
Models == {ModelOrder[i] : i \in 1..Len(ModelOrder)}

(* size of a pulled model in MiB, as get_model_size computes it *)
Size(m) == CASE m = "A" -> 2 [] m = "B" -> 3 [] m = "C" -> 4 [] OTHER -> 9

(* content strings a chat chunk may carry *)
ChunkVals == {"", "a"}
StreamVals == {"", "a", "b"}

DONE == "[DONE]"

RECURSIVE SumSizes(_)
SumSizes(S) == IF S = {} THEN 0
               ELSE LET m == CHOOSE x \in S : TRUE IN Size(m) + SumSizes(S \ {m})

Max(a, b) == IF a >= b THEN a ELSE b

----------------------------------------------------------------------------
VARIABLES
  pc,        \* per task: the source position it is at
  entry,     \* per task: the Celery task the request was submitted as
  req,       \* per task: model_name argument
  lockKey,   \* value stored under lock:gpu:0 ({} = key absent, {t} = t's token)
  lk,        \* per task: the local `lock` of load_or_queue_model
  relVal,    \* per task: `val` read by RedisLock.release
  resident,  \* models ps() reports
  active,    \* active_model:<m> sets
  queued,    \* queued_model:<m> sets
  vfree,     \* per task: vram_usage['free'] snapshot (-1 = not read)
  loaded,    \* per task: loaded_models snapshot of ps()
  protA,     \* per task: active_models as read at line 176
  protQ,     \* per task: queued_models as read at line 177
  toOff,     \* per task: to_offload (sequence of model names still to offload)
  offIssued, \* per task: models generate(keep_alive=0) was issued for
  freed,     \* per task: freed_space
  ret,       \* per task: status of the loading result
  msg,       \* per task: message of the loading result / exception
  lqRaised,  \* per task: load_or_queue_model propagated an exception
  chan,      \* per task: messages published on its channel, in order
  yielded,   \* per task: contents the chat iterator has yielded, in order
  selIn,     \* select_models_to_offload: offloadable_models argument
  selReq,    \* select_models_to_offload: required_extra argument
  selOut,    \* select_models_to_offload: returned list
  selPc,     \* select_models_to_offload: "idle" | "called" | "returned"
  jpc,       \* cleanup_inactive_model_tracking: "idle" | "sweep"
  jloaded,   \* cleanup_inactive_model_tracking: loaded_model_names
  run,       \* how many times the request of task 1 has been delivered
  first,     \* the store and residency the first delivery ended with
  cpc,       \* per request: streaming_data "enqueued" | "listening" | "closed"
  subAt,     \* per request: messages its channel had carried at SUBSCRIBE
  rd         \* per request: messages get_message has handed to the loop

vars == <<pc, entry, req, lockKey, lk, relVal, resident, active, queued, vfree,
          loaded, protA, protQ, toOff, offIssued, freed, ret, msg, lqRaised,
          chan, yielded, selIn, selReq, selOut, selPc, jpc, jloaded,
          run, first, cpc, subAt, rd>>

selVars == <<selIn, selReq, selOut, selPc>>
janVars == <<jpc, jloaded>>
runVars == <<run, first>>
conVars == <<cpc, subAt, rd>>
storeVars == <<lockKey, resident, active, queued>>
planVars == <<vfree, loaded, protA, protQ, toOff, offIssued, freed>>

----------------------------------------------------------------------------
(* select_models_to_offload (src/utils/manage_models.py:80-103) *)

(* itertools.combinations(range(lo, n+1), r): index tuples in lexicographic order *)
RECURSIVE CombosFrom(_, _, _)
CombosFrom(lo, n, r) ==
  IF r = 0 THEN << <<>> >>
  ELSE IF lo > n THEN <<>>
  ELSE LET with == CombosFrom(lo + 1, n, r - 1)
           without == CombosFrom(lo + 1, n, r)
       IN [i \in 1..Len(with) |-> <<lo>> \o with[i]] \o without

(* for r in range(1, n+1): for combo in combinations(offloadable_models, r) *)
RECURSIVE AllCombos(_, _)
AllCombos(n, r) == IF r > n THEN <<>> ELSE CombosFrom(1, n, r) \o AllCombos(n, r + 1)

RECURSIVE ComboTotal(_, _)
ComboTotal(offl, combo) ==
  IF combo = <<>> THEN 0 ELSE offl[Head(combo)].size + ComboTotal(offl, Tail(combo))

(* a variant of the test of lines 98-99 that keeps the first feasible combination *)
BetterComboFirstFit(total, n, best, bestTotal) == best = <<>>

(* line 98-99: the test that replaces best_subset.  best = <<>> is best_subset
   None with best_total = inf. *)
BetterCombo(total, n, best, bestTotal) ==
  \/ best = <<>>
  \/ total < bestTotal
  \/ (total = bestTotal /\ n < Len(best))

RECURSIVE SelectLoop(_, _, _, _, _, _)
SelectLoop(combos, i, offl, required, best, bestTotal) ==
  IF i > Len(combos) THEN best
  ELSE LET combo == combos[i]
           total == ComboTotal(offl, combo)
       IN IF total >= required /\ BetterCombo(total, Len(combo), best, bestTotal)
          THEN SelectLoop(combos, i + 1, offl, required, combo, total)
          ELSE SelectLoop(combos, i + 1, offl, required, best, bestTotal)

(* a variant of line 103 that returns every offloadable model when no
   combination frees enough *)
select_best_effort(offl, required) ==
  IF required <= 0 THEN <<>>
  ELSE LET best == SelectLoop(AllCombos(Len(offl), 1), 1, offl, required, <<>>, 0)
       IN IF best = <<>> THEN offl ELSE [i \in 1..Len(best) |-> offl[best[i]]]

(* returns the chosen entries of offl, in combination order *)
select_models_to_offload(offl, required) ==
  IF required <= 0 THEN <<>>
  ELSE LET best == SelectLoop(AllCombos(Len(offl), 1), 1, offl, required, <<>>, 0)
       IN [i \in 1..Len(best) |-> offl[best[i]]]

----------------------------------------------------------------------------
(* Messages on a request's channel *)

ErrSysInfo == "[ERROR: Unable to retrieve system information]"
ErrUnboundVram == "[ERROR: cannot access local variable 'vram_usage']"
ErrUnboundLock == "[ERROR: cannot access local variable 'lock']"
ErrGpuBusy == "[ERROR: GPU busy, try later]"
ErrVramProbe == "[ERROR: Unable to retrieve VRAM usage]"
ErrTooLarge == "[ERROR: Model size exceeds total VRAM]"
ErrAllInUse == "[ERROR: All loaded models are in use. Unable to free VRAM.]"
ErrCannotFree == "[ERROR: Unable to free sufficient VRAM]"
ErrGenerate == "[ERROR: generate failed]"
ErrChat == "[ERROR: chat failed]"
ErrQueue == "[ERROR: mark_model_queued failed]"
NoMsg == "[ERROR: Failed to load model]"

ErrorMsgs == {ErrSysInfo, ErrUnboundVram, ErrUnboundLock, ErrGpuBusy, ErrVramProbe,
              ErrTooLarge, ErrAllInUse, ErrCannotFree, ErrGenerate, ErrChat,
              ErrQueue, NoMsg}

(* the id line 156 passes to mark_model_queued: an attribute of the task
   object ollama_stream, the same for every request *)
StreamObjId == 0

Ids == Tasks \cup {StreamObjId}

(* mem_info.free as NVML reports it: what the resident models leave *)
FreeVram == Max(0, TotalVram - SumSizes(resident))

(* ps(): resident models, as a list in runtime order *)
RECURSIVE PsList(_, _)
PsList(R, i) ==
  IF i > Len(ModelOrder) THEN <<>>
  ELSE (IF ModelOrder[i] \in R THEN <<ModelOrder[i]>> ELSE <<>>) \o PsList(R, i + 1)

(* residency states the runtime can be in when the workers start *)
InitResident == {R \in SUBSET Models : SumSizes(R) <= TotalVram}

----------------------------------------------------------------------------
(* RedisLock (src/services/redis_client.py:33-66) *)

(* line 55, `val.decode()`: the client is built with decode_responses=True
   (line 14), so GET yields a str, and a str has no decode(): the call raises
   AttributeError, which line 64 swallows. *)
ValHasDecode(val) == FALSE

(* a variant of release that deletes whatever token the key holds *)
ReleaseDeletesAnyToken(val, tok) == val # {}

(* release, lines 49-66: TRUE iff the MULTI/DEL/EXEC of lines 56-58 runs.
   val is the value read at line 54 ({} = None), tok the caller's self.value. *)
ReleaseDeletes(val, tok) ==
  IF val = {} THEN FALSE
  ELSE IF ~ValHasDecode(val) THEN FALSE
  ELSE val = {tok}

(* the TTL of line 43 (ex=self.ttl) runs out: Redis drops the key *)
LockExpire ==
  /\ lockKey # {}
  /\ lockKey' = {}
  /\ UNCHANGED <<pc, entry, req, lk, relVal, resident, active, queued, planVars, ret, msg,
                 lqRaised, chan, yielded, selVars, janVars, runVars, conVars>>

----------------------------------------------------------------------------
(* load_or_queue_model (src/utils/manage_models.py:105-261), called through
   manage_model_loading (src/worker/celery_app.py:45-70) *)

Return(t, status, message) ==
  /\ ret' = [ret EXCEPT ![t] = status]
  /\ msg' = [msg EXCEPT ![t] = message]
  /\ pc' = [pc EXCEPT ![t] = "lq_finally"]

(* lines 134-139 as written: `vram_usage` is a local that is first assigned at
   line 147.  With model_size falsy the test short-circuits and line 139
   returns; otherwise evaluating `vram_usage` raises UnboundLocalError, which
   line 257 turns into an error result. *)
LqSizeCheck(t) ==
  /\ pc[t] = "lq_size"
  /\ \E sizeKnown \in BOOLEAN :
       IF sizeKnown THEN Return(t, "error", ErrUnboundVram)
       ELSE Return(t, "error", ErrSysInfo)
  /\ UNCHANGED <<entry, req, storeVars, lk, relVal, planVars, lqRaised, chan, yielded, selVars, janVars, runVars, conVars>>

(* lines 134-139 with `vram_usage` bound to a truthy value when line 137 is
   evaluated: only `not model_size` decides. *)
LqSizeCheckBound(t) ==
  /\ pc[t] = "lq_size"
  /\ \E sizeKnown \in BOOLEAN :
       IF sizeKnown
       THEN /\ pc' = [pc EXCEPT ![t] = "lq_acquire"]
            /\ UNCHANGED <<ret, msg>>
       ELSE Return(t, "error", ErrSysInfo)
  /\ UNCHANGED <<entry, req, storeVars, lk, relVal, planVars, lqRaised, chan, yielded, selVars, janVars, runVars, conVars>>

(* lines 142-145: RedisLock(...).acquire(block=True, timeout=5).  SET NX
   succeeds when the key is absent; when the key stays present for the whole
   wait, acquire returns False and line 145 returns. *)
LqAcquire(t) ==
  /\ pc[t] = "lq_acquire"
  /\ IF lockKey = {}
     THEN /\ lockKey' = {t}
          /\ lk' = [lk EXCEPT ![t] = "held"]
          /\ pc' = [pc EXCEPT ![t] = "lq_vram"]
          /\ UNCHANGED <<ret, msg>>
     ELSE /\ lk' = [lk EXCEPT ![t] = "failed"]
          /\ Return(t, "insufficient_vram", ErrGpuBusy)
          /\ UNCHANGED lockKey
  /\ UNCHANGED <<entry, req, relVal, resident, active, queued, planVars, lqRaised, chan,
                 yielded, selVars, janVars, runVars, conVars>>

(* lines 147-156: the VRAM snapshot and the total-VRAM test *)
LqReadVram(t) ==
  /\ pc[t] = "lq_vram"
  /\ \E probeOk \in BOOLEAN :
       IF ~probeOk
       THEN /\ Return(t, "error", ErrVramProbe)
            /\ UNCHANGED vfree
       ELSE /\ vfree' = [vfree EXCEPT ![t] = FreeVram]
            /\ IF Size(req[t]) > TotalVram
               THEN Return(t, "error", ErrTooLarge)
               ELSE /\ pc' = [pc EXCEPT ![t] = "lq_ps"]
                    /\ UNCHANGED <<ret, msg>>
  /\ UNCHANGED <<entry, req, storeVars, lk, relVal, loaded, protA, protQ, toOff, offIssued,
                 freed, lqRaised, chan, yielded, selVars, janVars, runVars, conVars>>

(* a variant of lines 158-167 without the already-loaded test of lines 161-164 *)
LqPsNoLoadedTest(t) ==
  /\ pc[t] = "lq_ps"
  /\ loaded' = [loaded EXCEPT ![t] = resident]
  /\ pc' = [pc EXCEPT ![t] = IF Size(req[t]) < vfree[t] THEN "lq_direct" ELSE "lq_active"]
  /\ UNCHANGED <<ret, msg>>
  /\ UNCHANGED <<entry, req, storeVars, lk, relVal, vfree, protA, protQ, toOff, offIssued,
                 freed, lqRaised, chan, yielded, selVars, janVars, runVars, conVars>>

(* lines 158-167: ps(), the already-loaded test and the free-VRAM test *)
LqPs(t) ==
  /\ pc[t] = "lq_ps"
  /\ loaded' = [loaded EXCEPT ![t] = resident]
  /\ IF req[t] \in resident
     THEN Return(t, "loaded", NoMsg)
     ELSE /\ pc' = [pc EXCEPT ![t] =
                      IF Size(req[t]) < vfree[t] THEN "lq_direct" ELSE "lq_active"]
          /\ UNCHANGED <<ret, msg>>
  /\ UNCHANGED <<entry, req, storeVars, lk, relVal, vfree, protA, protQ, toOff, offIssued,
                 freed, lqRaised, chan, yielded, selVars, janVars, runVars, conVars>>

(* lines 169-170: generate(keep_alive=-1); a failure goes to line 257 *)
LqDirectLoad(t) ==
  /\ pc[t] = "lq_direct"
  /\ \E ok \in BOOLEAN :
       IF ok
       THEN /\ resident' = resident \cup {req[t]}
            /\ Return(t, "loaded", NoMsg)
       ELSE /\ Return(t, "error", ErrGenerate)
            /\ UNCHANGED resident
  /\ UNCHANGED <<entry, req, lockKey, active, queued, lk, relVal, planVars, lqRaised, chan,
                 yielded, selVars, janVars, runVars, conVars>>

(* get_active_models / get_queued_models (src/services/cache.py:16-48) *)
get_active_models == {m \in Models : active[m] # {}}
get_queued_models == {m \in Models : queued[m] # {}}

(* line 176 *)
LqReadActive(t) ==
  /\ pc[t] = "lq_active"
  /\ protA' = [protA EXCEPT ![t] = get_active_models]
  /\ pc' = [pc EXCEPT ![t] = "lq_plan"]
  /\ UNCHANGED <<entry, req, storeVars, lk, relVal, vfree, loaded, protQ, toOff, offIssued,
                 freed, ret, msg, lqRaised, chan, yielded, selVars, janVars, runVars, conVars>>

(* a variant of lines 183-194 that skips the protected test of line 187 *)
OffloadableUnfiltered(loadedList, protected) ==
  [i \in 1..Len(loadedList) |-> [name |-> loadedList[i], size |-> Size(loadedList[i])]]

(* lines 183-194: the resident models that are not protected, in ps() order *)
Offloadable(loadedList, protected) ==
  LET keep == SelectSeq(loadedList, LAMBDA m : m \notin protected)
  IN [i \in 1..Len(keep) |-> [name |-> keep[i], size |-> Size(keep[i])]]

(* lines 177-221: the protected set, the offloadable list and the choice of
   to_offload *)
LqPlan(t) ==
  /\ pc[t] = "lq_plan"
  /\ protQ' = [protQ EXCEPT ![t] = get_queued_models]
  /\ LET offl == Offloadable(PsList(loaded[t], 1), protA[t] \cup get_queued_models)
         required == Max(0, Size(req[t]) - vfree[t])
         sel == select_models_to_offload(offl, required)
     IN IF offl = <<>>
        THEN /\ Return(t, "insufficient_vram", ErrAllInUse)
             /\ UNCHANGED <<toOff, freed>>
        ELSE IF sel = <<>>
        THEN /\ Return(t, "insufficient_vram", ErrCannotFree)
             /\ UNCHANGED <<toOff, freed>>
        ELSE /\ toOff' = [toOff EXCEPT ![t] = [i \in 1..Len(sel) |-> sel[i].name]]
             /\ freed' = [freed EXCEPT ![t] = 0]
             /\ pc' = [pc EXCEPT ![t] = "lq_offload"]
             /\ UNCHANGED <<ret, msg>>
  /\ UNCHANGED <<entry, req, storeVars, lk, relVal, vfree, loaded, protA, offIssued,
                 lqRaised, chan, yielded, selVars, janVars, runVars, conVars>>

(* lines 226-233: one iteration of the offload loop; a failing generate is
   logged and skipped *)
LqOffload(t) ==
  /\ pc[t] = "lq_offload"
  /\ toOff[t] # <<>>
  /\ LET m == Head(toOff[t])
     IN /\ offIssued' = [offIssued EXCEPT ![t] = @ \cup {m}]
        /\ \E ok \in BOOLEAN :
             IF ok
             THEN /\ resident' = resident \ {m}
                  /\ freed' = [freed EXCEPT ![t] = @ + Size(m)]
             ELSE UNCHANGED <<resident, freed>>
  /\ toOff' = [toOff EXCEPT ![t] = Tail(@)]
  /\ pc' = [pc EXCEPT ![t] = IF Tail(toOff[t]) = <<>> THEN "lq_final" ELSE "lq_offload"]
  /\ UNCHANGED <<entry, req, lockKey, active, queued, lk, relVal, vfree, loaded, protA, protQ,
                 ret, msg, lqRaised, chan, yielded, selVars, janVars, runVars, conVars>>

(* a variant of lines 235-255 without the test of line 235: the pin is issued
   whatever the offloads freed *)
LqFinalLoadUntested(t) ==
  /\ pc[t] = "lq_final"
  /\ \E ok \in BOOLEAN :
       IF ok
       THEN /\ resident' = resident \cup {req[t]}
            /\ Return(t, "loaded", NoMsg)
       ELSE /\ Return(t, "error", ErrGenerate)
            /\ UNCHANGED resident
  /\ UNCHANGED <<entry, req, lockKey, active, queued, lk, relVal, planVars, lqRaised, chan,
                 yielded, selVars, janVars, runVars, conVars>>

(* lines 235-255: pin the requested model if enough was freed *)
LqFinalLoad(t) ==
  /\ pc[t] = "lq_final"
  /\ IF freed[t] + vfree[t] >= Size(req[t])
     THEN \E ok \in BOOLEAN :
            IF ok
            THEN /\ resident' = resident \cup {req[t]}
                 /\ Return(t, "loaded", NoMsg)
            ELSE /\ Return(t, "error", ErrGenerate)
                 /\ UNCHANGED resident
     ELSE /\ Return(t, "insufficient_vram", ErrCannotFree)
          /\ UNCHANGED resident
  /\ UNCHANGED <<entry, req, lockKey, active, queued, lk, relVal, planVars, lqRaised, chan,
                 yielded, selVars, janVars, runVars, conVars>>

(* the locals of load_or_queue_model go out of scope when it returns *)
PlanLocalsDropped(t) ==
  /\ vfree' = [vfree EXCEPT ![t] = -1]
  /\ loaded' = [loaded EXCEPT ![t] = {}]
  /\ protA' = [protA EXCEPT ![t] = {}]
  /\ protQ' = [protQ EXCEPT ![t] = {}]
  /\ toOff' = [toOff EXCEPT ![t] = <<>>]
  /\ offIssued' = [offIssued EXCEPT ![t] = {}]
  /\ freed' = [freed EXCEPT ![t] = 0]

(* where the loading result goes: manage_model_loading run as a task of its
   own returns it (celery_app.py:58-70); process_ollama_request tests it at
   line 141 *)
Returned(t, status) ==
  IF entry[t] = "manage_model_loading" THEN "done"
  ELSE IF status = "loaded" THEN "s_active" ELSE "p_fail"

(* lines 260-261, `finally: lock.release()`, and the return to
   manage_model_loading (celery_app.py:57-70) and on to line 141 of
   process_ollama_request.  When `lock` was never assigned the finally
   clause raises UnboundLocalError in place of the pending return;
   manage_model_loading turns that into an error result. *)
LqFinally(t) ==
  /\ pc[t] = "lq_finally"
  /\ IF lk[t] = "unbound"
     THEN /\ lqRaised' = [lqRaised EXCEPT ![t] = TRUE]
          /\ ret' = [ret EXCEPT ![t] = "error"]
          /\ msg' = [msg EXCEPT ![t] = ErrUnboundLock]
          /\ pc' = [pc EXCEPT ![t] = Returned(t, "error")]
          /\ UNCHANGED <<lockKey, lk, relVal>>
     ELSE /\ relVal' = [relVal EXCEPT ![t] = lockKey]
          /\ lockKey' = IF ReleaseDeletes(lockKey, t) THEN {} ELSE lockKey
          /\ lk' = [lk EXCEPT ![t] = "released"]
          /\ pc' = [pc EXCEPT ![t] = Returned(t, ret[t])]
          /\ UNCHANGED <<ret, msg, lqRaised>>
  /\ PlanLocalsDropped(t)
  /\ UNCHANGED <<entry, req, resident, active, queued, chan, yielded, selVars, janVars, runVars, conVars>>

----------------------------------------------------------------------------
(* process_ollama_request and ollama_stream (src/worker/celery_app.py:80-175) *)

Publish(t, messages) == chan' = [chan EXCEPT ![t] = @ \o messages]

(* a variant of lines 141-150 that omits the publish of line 145 *)
PLoadFailedNoDone(t) ==
  /\ pc[t] = "p_fail"
  /\ Publish(t, <<msg[t]>>)
  /\ pc' = [pc EXCEPT ![t] = "done"]
  /\ UNCHANGED <<entry, req, storeVars, lk, relVal, planVars, ret, msg, lqRaised, yielded,
                 selVars, janVars, runVars, conVars>>

(* a variant of lines 141-150 that plans again after insufficient_vram *)
PLoadFailedRetry(t) ==
  /\ pc[t] = "p_fail"
  /\ IF ret[t] = "insufficient_vram"
     THEN /\ pc' = [pc EXCEPT ![t] = "lq_size"]
          /\ lk' = [lk EXCEPT ![t] = "unbound"]
          /\ UNCHANGED chan
     ELSE /\ Publish(t, <<msg[t], DONE>>)
          /\ pc' = [pc EXCEPT ![t] = "done"]
          /\ UNCHANGED lk
  /\ UNCHANGED <<entry, req, storeVars, relVal, planVars, ret, msg, lqRaised, yielded,
                 selVars, janVars, runVars, conVars>>

(* lines 141-150: loading did not return 'loaded' *)
PLoadFailed(t) ==
  /\ pc[t] = "p_fail"
  /\ Publish(t, <<msg[t], DONE>>)
  /\ pc' = [pc EXCEPT ![t] = "done"]
  /\ UNCHANGED <<entry, req, storeVars, lk, relVal, planVars, ret, msg, lqRaised, yielded,
                 selVars, janVars, runVars, conVars>>

(* line 89: mark_model_active(model_name, self.request.id) *)
SMarkActive(t) ==
  /\ pc[t] = "s_active"
  /\ active' = [active EXCEPT ![req[t]] = @ \cup {t}]
  /\ pc' = [pc EXCEPT ![t] = "s_dequeue"]
  /\ UNCHANGED <<entry, req, lockKey, resident, queued, lk, relVal, planVars, ret, msg,
                 lqRaised, chan, yielded, selVars, janVars, runVars, conVars>>

(* line 90: mark_model_dequeued(model_name, self.request.id) *)
SMarkDequeued(t) ==
  /\ pc[t] = "s_dequeue"
  /\ queued' = [queued EXCEPT ![req[t]] = @ \ {t}]
  /\ pc' = [pc EXCEPT ![t] = "s_chat"]
  /\ UNCHANGED <<entry, req, lockKey, resident, active, lk, relVal, planVars, ret, msg,
                 lqRaised, chan, yielded, selVars, janVars, runVars, conVars>>

(* a variant of line 103 that publishes the newest chunk ahead of the
   earlier ones *)
SChunkOfReordered(t, limit, vals) ==
  /\ pc[t] = "s_chat"
  /\ Len(yielded[t]) < limit
  /\ \E content \in vals :
       /\ yielded' = [yielded EXCEPT ![t] = Append(@, content)]
       /\ chan' = [chan EXCEPT ![t] = <<content>> \o @]
  /\ UNCHANGED <<pc, entry, req, storeVars, lk, relVal, planVars, ret, msg, lqRaised, selVars,
                 janVars, runVars, conVars>>

(* lines 101-103: the iterator yields a chunk, whose content is published.
   The iterator yields at most `limit` chunks, with contents from `vals`. *)
SChunkOf(t, limit, vals) ==
  /\ pc[t] = "s_chat"
  /\ Len(yielded[t]) < limit
  /\ \E content \in vals :
       /\ yielded' = [yielded EXCEPT ![t] = Append(@, content)]
       /\ Publish(t, <<content>>)
  /\ UNCHANGED <<pc, entry, req, storeVars, lk, relVal, planVars, ret, msg, lqRaised, selVars,
                 janVars, runVars, conVars>>

SChunk(t) == SChunkOf(t, MaxChunks, ChunkVals)

(* the same lines for a longer response with more kinds of content *)
SChunkLong(t) == SChunkOf(t, MaxStream, StreamVals)

(* lines 104-112: the iterator is exhausted *)
SStreamEnd(t) ==
  /\ pc[t] = "s_chat"
  /\ Publish(t, <<DONE>>)
  /\ pc' = [pc EXCEPT ![t] = "s_finally_ok"]
  /\ UNCHANGED <<entry, req, storeVars, lk, relVal, planVars, ret, msg, lqRaised, yielded,
                 selVars, janVars, runVars, conVars>>

(* lines 92-103 raise (Client, update_state, chat or publish), lines 114-122
   handle it and re-raise *)
SStreamRaise(t) ==
  /\ pc[t] = "s_chat"
  /\ Publish(t, <<ErrChat, DONE>>)
  /\ pc' = [pc EXCEPT ![t] = "s_finally_exc"]
  /\ UNCHANGED <<entry, req, storeVars, lk, relVal, planVars, ret, msg, lqRaised, yielded,
                 selVars, janVars, runVars, conVars>>

(* a variant of lines 123-125 that removes the id only when the stream ended
   normally *)
SFinallyOkOnly(t) ==
  /\ pc[t] \in {"s_finally_ok", "s_finally_exc"}
  /\ active' = [active EXCEPT ![req[t]] = IF pc[t] = "s_finally_ok" THEN @ \ {t} ELSE @]
  /\ pc' = [pc EXCEPT ![t] = IF pc[t] = "s_finally_ok" THEN "p_queue" ELSE "p_except"]
  /\ msg' = [msg EXCEPT ![t] = IF pc[t] = "s_finally_ok" THEN @ ELSE ErrChat]
  /\ UNCHANGED <<entry, req, lockKey, resident, queued, lk, relVal, planVars, ret, lqRaised,
                 chan, yielded, selVars, janVars, runVars, conVars>>

(* lines 123-125: finally: mark_model_inactive; then back in
   process_ollama_request, at line 156 or in the handler of line 164 *)
SFinally(t) ==
  /\ pc[t] \in {"s_finally_ok", "s_finally_exc"}
  /\ active' = [active EXCEPT ![req[t]] = @ \ {t}]
  /\ pc' = [pc EXCEPT ![t] = IF pc[t] = "s_finally_ok" THEN "p_queue" ELSE "p_except"]
  /\ msg' = [msg EXCEPT ![t] = IF pc[t] = "s_finally_ok" THEN @ ELSE ErrChat]
  /\ UNCHANGED <<entry, req, lockKey, resident, queued, lk, relVal, planVars, ret, lqRaised,
                 chan, yielded, selVars, janVars, runVars, conVars>>

(* a variant of line 156 whose entry differs from one delivery to the next *)
PMarkQueuedPerRun(t) ==
  /\ pc[t] = "p_queue"
  /\ queued' = [queued EXCEPT ![req[t]] = @ \cup {run}]
  /\ pc' = [pc EXCEPT ![t] = "done"]
  /\ UNCHANGED <<entry, req, lockKey, resident, active, lk, relVal, planVars, ret, msg,
                 lqRaised, chan, yielded, selVars, janVars, runVars, conVars>>

(* lines 156-162: mark_model_queued(model_name, ollama_stream.id), then the
   'completed' result *)
PMarkQueued(t) ==
  /\ pc[t] = "p_queue"
  /\ queued' = [queued EXCEPT ![req[t]] = @ \cup {StreamObjId}]
  /\ pc' = [pc EXCEPT ![t] = "done"]
  /\ UNCHANGED <<entry, req, lockKey, resident, active, lk, relVal, planVars, ret, msg,
                 lqRaised, chan, yielded, selVars, janVars, runVars, conVars>>

(* line 156 raises (the attribute lookup or the store) *)
PMarkQueuedRaise(t) ==
  /\ pc[t] = "p_queue"
  /\ msg' = [msg EXCEPT ![t] = ErrQueue]
  /\ pc' = [pc EXCEPT ![t] = "p_except"]
  /\ UNCHANGED <<entry, req, storeVars, lk, relVal, planVars, ret, lqRaised, chan, yielded,
                 selVars, janVars, runVars, conVars>>

(* lines 164-175: the handler of process_ollama_request *)
PExcept(t) ==
  /\ pc[t] = "p_except"
  /\ Publish(t, <<msg[t], DONE>>)
  /\ pc' = [pc EXCEPT ![t] = "done"]
  /\ UNCHANGED <<entry, req, storeVars, lk, relVal, planVars, ret, msg, lqRaised, yielded,
                 selVars, janVars, runVars, conVars>>

----------------------------------------------------------------------------
(* cleanup_inactive_model_tracking (src/utils/manage_models.py:263-280), run
   by the task cleanup_stale_model_tracking (src/worker/celery_app.py:177-190) *)

(* lines 266-270: ps() and the set of resident names *)
CleanupPs ==
  /\ jpc = "idle"
  /\ jloaded' = resident
  /\ jpc' = "sweep"
  /\ UNCHANGED <<pc, entry, req, storeVars, lk, relVal, planVars, ret, msg, lqRaised,
                 chan, yielded, selVars, runVars, conVars>>

(* a variant of lines 272-276 that also deletes the queued_model keys *)
CleanupSweepBothSets ==
  /\ jpc = "sweep"
  /\ active' = [m \in Models |-> IF m \in jloaded THEN active[m] ELSE {}]
  /\ queued' = [m \in Models |-> IF m \in jloaded THEN queued[m] ELSE {}]
  /\ jpc' = "idle"
  /\ jloaded' = {}
  /\ UNCHANGED <<pc, entry, req, lockKey, resident, lk, relVal, planVars, ret, msg,
                 lqRaised, chan, yielded, selVars, runVars, conVars>>

(* lines 272-277: every key active_model:<m> whose m is not in
   loaded_model_names is deleted; no other key is scanned *)
CleanupSweep ==
  /\ jpc = "sweep"
  /\ active' = [m \in Models |-> IF m \in jloaded THEN active[m] ELSE {}]
  /\ jpc' = "idle"
  /\ jloaded' = {}
  /\ UNCHANGED <<pc, entry, req, lockKey, resident, queued, lk, relVal, planVars, ret, msg,
                 lqRaised, chan, yielded, selVars, runVars, conVars>>

cleanup_inactive_model_tracking == CleanupPs \/ CleanupSweep

(* the worker process running request t is lost while it is in the chat loop
   (celery_app.py:101-103): nothing of lines 104-125 runs for it *)
WorkerLost(t) ==
  /\ pc[t] = "s_chat"
  /\ pc' = [pc EXCEPT ![t] = "crashed"]
  /\ UNCHANGED <<entry, req, storeVars, lk, relVal, planVars, ret, msg, lqRaised, chan,
                 yielded, selVars, janVars, runVars, conVars>>

----------------------------------------------------------------------------
(* Specifications *)

SelIdle ==
  /\ selIn = <<>>
  /\ selReq = 0
  /\ selOut = <<>>
  /\ selPc = "idle"

(* no sweep in progress *)
JanIdle ==
  /\ jpc = "idle"
  /\ jloaded = {}

(* what a delivery leaves behind: set memberships and residency *)
Terminal == [active |-> active, queued |-> queued, resident |-> resident]

(* every request is in its first delivery *)
FirstRun ==
  /\ run = 1
  /\ first = [active |-> [m \in Models |-> {}], queued |-> [m \in Models |-> {}],
              resident |-> {}]

(* the UI has enqueued each request (main.py:165) and has not yet subscribed
   to its channel *)
ConIdle ==
  /\ cpc = [t \in Tasks |-> "enqueued"]
  /\ subAt = [t \in Tasks |-> 0]
  /\ rd = [t \in Tasks |-> 0]

(* requests delivered to workers (celery_app.py:129-139), against a runtime
   with some models resident and empty tracking sets *)
TaskLocalsInit ==
  /\ lk = [t \in Tasks |-> "unbound"]
  /\ relVal = [t \in Tasks |-> {}]
  /\ vfree = [t \in Tasks |-> -1]
  /\ loaded = [t \in Tasks |-> {}]
  /\ protA = [t \in Tasks |-> {}]
  /\ protQ = [t \in Tasks |-> {}]
  /\ toOff = [t \in Tasks |-> <<>>]
  /\ offIssued = [t \in Tasks |-> {}]
  /\ freed = [t \in Tasks |-> 0]
  /\ ret = [t \in Tasks |-> "none"]
  /\ msg = [t \in Tasks |-> NoMsg]
  /\ lqRaised = [t \in Tasks |-> FALSE]
  /\ chan = [t \in Tasks |-> <<>>]
  /\ yielded = [t \in Tasks |-> <<>>]

Started(kind) ==
  /\ pc = [t \in Tasks |-> "lq_size"]
  /\ entry = [t \in Tasks |-> kind]
  /\ req \in [Tasks -> Models]
  /\ lockKey = {}
  /\ resident \in InitResident
  /\ active = [m \in Models |-> {}]
  /\ queued = [m \in Models |-> {}]
  /\ TaskLocalsInit
  /\ SelIdle
  /\ JanIdle
  /\ FirstRun
  /\ ConIdle

Init == Started("process_ollama_request")

(* manage_model_loading submitted as a task of its own (celery_app.py:36-45) *)
InitLoad == Started("manage_model_loading")

(* the steps of one request after the size check *)
Planned(t) ==
  \/ LqAcquire(t)
  \/ LqReadVram(t)
  \/ LqPs(t)
  \/ LqDirectLoad(t)
  \/ LqReadActive(t)
  \/ LqPlan(t)
  \/ LqOffload(t)
  \/ LqFinalLoad(t)

StreamEnds(t) ==
  \/ SMarkActive(t)
  \/ SMarkDequeued(t)
  \/ SStreamEnd(t)
  \/ SStreamRaise(t)
  \/ SFinally(t)
  \/ PMarkQueued(t)
  \/ PMarkQueuedRaise(t)
  \/ PExcept(t)

Streamed(t) == SChunk(t) \/ StreamEnds(t)

(* the program as written *)
StepAsWritten(t) == LqSizeCheck(t) \/ LqFinally(t) \/ PLoadFailed(t)

NextAsWritten == \E t \in Tasks : StepAsWritten(t)

SpecAsWritten == Init /\ [][NextAsWritten]_vars

(* the program with `vram_usage` bound at line 137 *)
Step(t) == LqSizeCheckBound(t) \/ Planned(t) \/ LqFinally(t) \/ PLoadFailed(t) \/ Streamed(t)

Next == LockExpire \/ \E t \in Tasks : Step(t)

Spec == Init /\ [][Next]_vars

(* One request served to the end.  The other task ids stand for requests
   that ran before it: the store is in a state they can leave behind (the
   lock key still holding a token, celery_app.py:156 entries in queued_model
   sets).  The worker does not crash: it keeps stepping, and Redis keeps
   expiring keys. *)
InitOne ==
  /\ pc = [t \in Tasks |-> IF t = 1 THEN "lq_size" ELSE "idle"]
  /\ entry = [t \in Tasks |-> "process_ollama_request"]
  /\ req \in {r \in [Tasks -> Models] : \A t \in Tasks \ {1} : r[t] = "A"}
  /\ lockKey \in {{}} \cup {{u} : u \in Tasks \ {1}}
  /\ resident \in InitResident
  /\ active = [m \in Models |-> {}]
  /\ queued \in [Models -> {{}, {StreamObjId}}]
  /\ TaskLocalsInit
  /\ SelIdle
  /\ JanIdle
  /\ FirstRun
  /\ ConIdle

FairSpec == InitOne /\ [][Next]_vars /\ WF_vars(Next)

(* manage_model_loading tasks only, `vram_usage` bound at line 137 *)
StepLoad(t) == LqSizeCheckBound(t) \/ Planned(t) \/ LqFinally(t)

NextLoad == LockExpire \/ \E t \in Tasks : StepLoad(t)

SpecLoad == InitLoad /\ [][NextLoad]_vars

(* one call of select_models_to_offload on an arbitrary list of offloadable
   models (distinct names, sizes 0..MaxSize) and required_extra 0..MaxReq *)
RECURSIVE DistinctSeqs(_, _)
DistinctSeqs(S, n) ==
  IF n = 0 THEN {<<>>}
  ELSE LET shorter == DistinctSeqs(S, n - 1)
       IN shorter \cup {Append(q, x) : q \in {r \in shorter : Len(r) = n - 1}, x \in S}

NamesOf(list) == {list[i].name : i \in 1..Len(list)}

OffloadableLists ==
  {q \in DistinctSeqs([name : Models, size : 0..MaxSize], MaxSel) :
     Cardinality(NamesOf(q)) = Len(q)}

InitSelect ==
  /\ pc = [t \in Tasks |-> "done"]
  /\ entry = [t \in Tasks |-> "none"]
  /\ req = [t \in Tasks |-> "A"]
  /\ lockKey = {}
  /\ resident = {}
  /\ active = [m \in Models |-> {}]
  /\ queued = [m \in Models |-> {}]
  /\ TaskLocalsInit
  /\ selIn \in OffloadableLists
  /\ selReq \in 0..MaxReq
  /\ selOut = <<>>
  /\ selPc = "called"
  /\ JanIdle
  /\ FirstRun
  /\ ConIdle

SelectCall ==
  /\ selPc = "called"
  /\ selOut' = select_models_to_offload(selIn, selReq)
  /\ selPc' = "returned"
  /\ UNCHANGED <<pc, entry, req, storeVars, lk, relVal, planVars, ret, msg, lqRaised,
                 chan, yielded, selIn, selReq, janVars, runVars, conVars>>

SpecSelect == InitSelect /\ [][SelectCall]_vars

(* one request whose response is up to MaxStream chunks long *)
StepStream(t) ==
  \/ LqSizeCheckBound(t)
  \/ Planned(t)
  \/ LqFinally(t)
  \/ PLoadFailed(t)
  \/ SChunkLong(t)
  \/ StreamEnds(t)

NextStream == LockExpire \/ \E t \in Tasks : StepStream(t)

SpecStream == InitOne /\ [][NextStream]_vars

(* requests served while the periodic sweep runs and workers may be lost *)
NextJanitor ==
  \/ Next
  \/ cleanup_inactive_model_tracking
  \/ \E t \in Tasks : WorkerLost(t)

(* One request served to the end while the sweep runs.  The other task ids
   stand for earlier requests: ones that ended ("idle") and ones whose worker
   was lost in the chat loop ("crashed"), after loading returned and
   ollama_stream marked them active on a resident model.  queued_model sets
   may hold the entries of celery_app.py:156. *)
LostWorkers == {u \in Tasks \ {1} : pc[u] = "crashed"}

InitJanitor ==
  /\ pc \in {f \in [Tasks -> {"lq_size", "idle", "crashed"}] :
               f[1] = "lq_size" /\ \A u \in Tasks \ {1} : f[u] # "lq_size"}
  /\ entry = [t \in Tasks |-> "process_ollama_request"]
  /\ resident \in InitResident
  /\ req \in {r \in [Tasks -> Models] :
                \A u \in Tasks \ {1} : IF u \in LostWorkers THEN r[u] \in resident
                                                             ELSE r[u] = "A"}
  /\ lockKey = {}
  /\ active = [m \in Models |-> {u \in LostWorkers : req[u] = m}]
  /\ queued \in [Models -> {{}, {StreamObjId}}]
  /\ lk = [t \in Tasks |-> IF t \in LostWorkers THEN "released" ELSE "unbound"]
  /\ ret = [t \in Tasks |-> IF t \in LostWorkers THEN "loaded" ELSE "none"]
  /\ relVal = [t \in Tasks |-> {}]
  /\ vfree = [t \in Tasks |-> -1]
  /\ loaded = [t \in Tasks |-> {}]
  /\ protA = [t \in Tasks |-> {}]
  /\ protQ = [t \in Tasks |-> {}]
  /\ toOff = [t \in Tasks |-> <<>>]
  /\ offIssued = [t \in Tasks |-> {}]
  /\ freed = [t \in Tasks |-> 0]
  /\ msg = [t \in Tasks |-> NoMsg]
  /\ lqRaised = [t \in Tasks |-> FALSE]
  /\ chan = [t \in Tasks |-> <<>>]
  /\ yielded = [t \in Tasks |-> <<>>]
  /\ SelIdle
  /\ JanIdle
  /\ FirstRun
  /\ ConIdle

SpecJanitor == InitJanitor /\ [][NextJanitor]_vars

(* the worker keeps stepping and the sweep keeps being run *)
FairSpecJanitor ==
  /\ SpecJanitor
  /\ WF_vars(\E t \in Tasks : Step(t))
  /\ WF_vars(cleanup_inactive_model_tracking)

(* The request of task 1 is delivered, runs to its end, and is delivered a
   second time (task_acks_late, celery_app.py:17): process_ollama_request
   starts again at line 129 with fresh locals, against the store and the
   residency the first delivery left.  Nobody else touches the store (the
   other task ids are idle, lock:gpu:0 starts free), and the runtime, NVML
   and the store answer every call: no call raises, every generate does what
   it is asked. *)
Redeliver(t) ==
  /\ t = 1
  /\ run = 1
  /\ pc[t] = "done"
  /\ run' = 2
  /\ first' = Terminal
  /\ pc' = [pc EXCEPT ![t] = "lq_size"]
  /\ lk' = [lk EXCEPT ![t] = "unbound"]
  /\ relVal' = [relVal EXCEPT ![t] = {}]
  /\ ret' = [ret EXCEPT ![t] = "none"]
  /\ msg' = [msg EXCEPT ![t] = NoMsg]
  /\ lqRaised' = [lqRaised EXCEPT ![t] = FALSE]
  /\ chan' = [chan EXCEPT ![t] = <<>>]
  /\ yielded' = [yielded EXCEPT ![t] = <<>>]
  /\ UNCHANGED <<entry, req, storeVars, planVars, selVars, janVars, conVars>>

(* the calls of request t to the runtime and to NVML succeed *)
CallsSucceed(t) ==
  /\ msg'[t] \notin {ErrSysInfo, ErrVramProbe, ErrGenerate}
  /\ pc[t] = "lq_offload" => Head(toOff[t]) \notin resident'

StepReplay(t) ==
  \/ LqSizeCheckBound(t) /\ CallsSucceed(t)
  \/ LqAcquire(t)
  \/ LqReadVram(t) /\ CallsSucceed(t)
  \/ LqPs(t)
  \/ LqDirectLoad(t) /\ CallsSucceed(t)
  \/ LqReadActive(t)
  \/ LqPlan(t)
  \/ LqOffload(t) /\ CallsSucceed(t)
  \/ LqFinalLoad(t) /\ CallsSucceed(t)
  \/ LqFinally(t)
  \/ PLoadFailed(t)
  \/ SMarkActive(t)
  \/ SMarkDequeued(t)
  \/ SChunk(t)
  \/ SStreamEnd(t)
  \/ SFinally(t)
  \/ PMarkQueued(t)
  \/ Redeliver(t)

NextReplay == LockExpire \/ \E t \in Tasks : StepReplay(t)

InitReplay == InitOne /\ lockKey = {}

SpecReplay == InitReplay /\ [][NextReplay]_vars

----------------------------------------------------------------------------
(* Properties *)

Range(q) == {q[i] : i \in 1..Len(q)}
CountOf(q, S) == Cardinality({i \in 1..Len(q) : q[i] \in S})
HasDone(t) == DONE \in Range(chan[t])

(* C1: at most one [DONE] is ever published on a request's channel, on every
   exit path of process_ollama_request. *)
C1_AtMostOneDone == \A t \in Tasks : CountOf(chan[t], {DONE}) <= 1

(* C2: every request handed to process_ollama_request eventually has [DONE]
   published on its channel (worker alive, finite iterator, store up). *)
C2_EventuallyDone == \A t \in Tasks : (pc[t] \notin {"idle", "done"}) ~> HasDone(t)

(* a request that streamed to the end and has its [DONE] *)
C2_Witness ==
  \E t \in Tasks : pc[t] = "done" /\ ret[t] = "loaded" /\ yielded[t] # <<>> /\ HasDone(t)

(* C3: an aborted request's channel carries exactly one [ERROR: ...], directly
   followed by the terminating [DONE]; no channel carries two [ERROR: ...]. *)
C3_OneErrorBeforeDone ==
  \A t \in Tasks :
    /\ CountOf(chan[t], ErrorMsgs) <= 1
    /\ \A i \in 1..Len(chan[t]) :
         chan[t][i] \in ErrorMsgs => (i + 1 = Len(chan[t]) /\ chan[t][i + 1] = DONE)
    /\ (pc[t] = "done" /\ ret[t] # "loaded") => CountOf(chan[t], ErrorMsgs) = 1

(* C4: at most one task is between a successful acquire and its release, and
   the key lock:gpu:0 holds that task's token. *)
C4_LockExclusive ==
  /\ Cardinality({t \in Tasks : lk[t] = "held"}) <= 1
  /\ \A t \in Tasks : lk[t] = "held" => lockKey = {t}

ReleaseStep(t) == pc[t] = "lq_finally" /\ pc'[t] # "lq_finally" /\ lk[t] # "unbound"

(* C5: on every exit of load_or_queue_model after the lock was acquired, the
   caller's release deletes the key that holds the caller's token. *)
C5_ReleaseDeletesOwnKey ==
  [][\A t \in Tasks : (ReleaseStep(t) /\ lk[t] = "held" /\ lockKey = {t}) => lockKey' = {}]_vars

(* C6: release never deletes a key whose stored token is not the caller's. *)
C6_ReleaseKeepsForeignKey ==
  [][\A t \in Tasks : (ReleaseStep(t) /\ lockKey # {t}) => lockKey' = lockKey]_vars

(* a task released while the key held another task's token, and that key is
   still in place *)
C6_Witness ==
  \E t, u \in Tasks :
    /\ t # u
    /\ lk[t] = "released"
    /\ relVal[t] = {u}
    /\ lockKey = {u}

(* C7: the models a planning pass offloads are disjoint from the active and
   queued models it read, and never include the requested model. *)
C7_OffloadAvoidsProtected ==
  \A t \in Tasks :
    (offIssued[t] \cup Range(toOff[t])) \cap (protA[t] \cup protQ[t] \cup {req[t]}) = {}

(* a pass that offloaded a model while a resident model was protected *)
C7_Witness ==
  \E t \in Tasks :
    /\ offIssued[t] # {}
    /\ (protA[t] \cup protQ[t]) \cap loaded[t] # {}

Admitted(u, m) == req[u] = m /\ pc[u] \in {"s_active", "s_dequeue", "s_chat"}

(* C8: no model is offloaded while a task is admitted on it or streaming on it. *)
C8_NoOffloadWhileAdmitted ==
  [][\A m \in Models :
       (m \in resident /\ m \notin resident') => ~\E u \in Tasks : Admitted(u, m)]_vars

(* subsets of the offloadable list, as sets of positions *)
RECURSIVE SetTotal(_, _)
SetTotal(list, S) ==
  IF S = {} THEN 0
  ELSE LET i == CHOOSE x \in S : TRUE IN list[i].size + SetTotal(list, S \ {i})

Feasible(list, required) ==
  {S \in SUBSET (1..Len(list)) : S # {} /\ SetTotal(list, S) >= required}

Positions(list, out) == {i \in 1..Len(list) : \E j \in 1..Len(out) : out[j] = list[i]}

(* C9: for required_extra > 0 the result is a subset of the offloadable models
   whose total size is >= required_extra and minimal among all such subsets;
   the result is empty exactly when no subset reaches required_extra or
   required_extra <= 0. *)
C9_SelectMinimalTotal ==
  selPc = "returned" =>
    LET F == Feasible(selIn, selReq)
        S == Positions(selIn, selOut)
    IN /\ Range(selOut) \subseteq Range(selIn)
       /\ Cardinality(S) = Len(selOut)
       /\ (selOut = <<>>) <=> (selReq <= 0 \/ F = {})
       /\ selOut # <<>> =>
            /\ S \in F
            /\ \A T \in F : SetTotal(selIn, S) <= SetTotal(selIn, T)

(* a call that returned two models although a larger feasible subset exists *)
C9_Witness ==
  /\ selPc = "returned"
  /\ selReq > 0
  /\ Len(selOut) >= 2
  /\ \E T \in Feasible(selIn, selReq) :
       SetTotal(selIn, T) > SetTotal(selIn, Positions(selIn, selOut))

Rank(m) == CHOOSE i \in 1..Len(ModelOrder) : ModelOrder[i] = m

(* A before B in lexicographic order of their sorted names (A # B, same size) *)
LexLess(A, B) ==
  LET d == (A \ B) \cup (B \ A)
      least == CHOOSE x \in d : \A y \in d : Rank(x) <= Rank(y)
  IN least \in A

NamesAt(list, S) == {list[i].name : i \in S}

(* C10: among the subsets of minimal total the result has the fewest models,
   and among those it is the lexicographically smallest by model name. *)
C10_LexicographicTieBreak ==
  (selPc = "returned" /\ selOut # <<>>) =>
    LET F == Feasible(selIn, selReq)
        S == Positions(selIn, selOut)
        MinTotal == {T \in F : \A U \in F : SetTotal(selIn, T) <= SetTotal(selIn, U)}
        Fewest == {T \in MinTotal : \A U \in MinTotal : Cardinality(T) <= Cardinality(U)}
    IN /\ S \in Fewest
       /\ \A T \in Fewest :
            T # S => LexLess(NamesAt(selIn, S), NamesAt(selIn, T))

(* the positions inside load_or_queue_model: one planning pass *)
LoadPcs == {"lq_size", "lq_acquire", "lq_vram", "lq_ps", "lq_direct", "lq_active",
            "lq_plan", "lq_offload", "lq_final", "lq_finally"}

(* C11: a request whose planning pass yields insufficient_vram terminates after
   a bounded number of planning passes (the code makes one pass: once a request
   has left load_or_queue_model it never enters it again) and does not stay
   queued or retrying forever. *)
C11_BoundedPlanningPasses ==
  /\ [][\A t \in Tasks : pc[t] \notin LoadPcs => pc'[t] \notin LoadPcs]_vars
  /\ \A t \in Tasks : (ret[t] = "insufficient_vram") ~> (pc[t] = "done")

(* a request that ended after a pass that could not free enough VRAM *)
C11_Witness ==
  \E t \in Tasks :
    /\ pc[t] = "done"
    /\ ret[t] = "insufficient_vram"
    /\ msg[t] = ErrCannotFree
    /\ HasDone(t)

(* C12: a request whose planning pass yields insufficient_vram (the GPU lock
   not acquired within the wait included) is deferred and planned again
   instead of terminating; it fails only when its retries are used up, and the
   only error its channel then carries is [ERROR: max_retries_exceeded],
   followed by [DONE]. *)
C12_DeferredUntilMaxRetries ==
  \A t \in Tasks :
    ret[t] = "insufficient_vram" =>
      /\ Range(chan[t]) \cap ErrorMsgs = {}
      /\ pc[t] = "done" => chan[t] = <<"[ERROR: max_retries_exceeded]", DONE>>

(* a request between its attempt to take the GPU lock (manage_models.py:143)
   and the moment ollama_stream marks it active (celery_app.py:89) *)
WaitingOrPlanning(t) == lk[t] \in {"held", "failed"} \/ pc[t] = "s_active"

(* C13: a request's task id is in the reserved set of its model
   (queued_model:<m*>) from before its first attempt to take the GPU lock, so
   that other planning passes see m* as protected while it waits or plans. *)
C13_ReservedBeforeLock ==
  \A t \in Tasks : WaitingOrPlanning(t) => t \in queued[req[t]]

(* C14: a request that has reached a terminal outcome has its id in no active
   set; while it streams (from before the first chunk is published) its id is
   in the active set of its model, and every way out of streaming, normal or raising, removes
   it. *)
C14_ActiveOnlyWhileStreaming ==
  \A t \in Tasks :
    /\ pc[t] = "done" => \A m \in Models : t \notin active[m]
    /\ pc[t] \in {"s_dequeue", "s_chat", "s_finally_ok", "s_finally_exc"} =>
         t \in active[req[t]]
    /\ (yielded[t] # <<>> \/ chan[t] # <<>>) => pc[t] \notin {"s_active", "s_dequeue"}

(* a request whose stream raised after a chunk, ended, with no active entry *)
C14_Witness ==
  \E t \in Tasks :
    /\ pc[t] = "done"
    /\ yielded[t] # <<>>
    /\ ErrChat \in Range(chan[t])
    /\ \A m \in Models : t \notin active[m]

(* C15: a request that has reached a terminal outcome has its id in no
   reserved set, and leaves no entry in queued_model:<m>: a model that only
   finished requests asked for has an empty reserved set. *)
C15_NoReservationAfterEnd ==
  /\ \A t \in Tasks : pc[t] = "done" => \A m \in Models : t \notin queued[m]
  /\ \A m \in Models : (\A t \in Tasks : req[t] = m => pc[t] = "done") => queued[m] = {}

SweepStep == jpc = "sweep" /\ jpc' = "idle"

(* C16: after one run of the sweep that read the resident set R, every model
   that is not in R has an empty active set and an empty reserved set. *)
C16_SweepClearsNonResident ==
  [][SweepStep => \A m \in Models \ jloaded : active'[m] = {} /\ queued'[m] = {}]_vars

(* C17: an entry left in an active set by a worker lost mid-stream is cleared
   once the sweep has run, so that its model can be offloaded again: it does
   not protect the model forever. *)
C17_OrphanEventuallyCleared ==
  \A t \in Tasks : (pc[t] = "crashed") ~> (t \notin active[req[t]])

RECURSIVE Concat(_)
Concat(q) == IF q = <<>> THEN "" ELSE Head(q) \o Concat(Tail(q))

NonSentinel(q) == SelectSeq(q, LAMBDA x : x \notin ErrorMsgs \cup {DONE})

(* the chat loop of request t ran to the end of the iterator *)
StreamCompleted(t) ==
  \/ pc[t] \in {"s_finally_ok", "p_queue"}
  \/ pc[t] \in {"p_except", "done"} /\ ret[t] = "loaded" /\ ErrChat \notin Range(chan[t])

(* C18: when a stream completes normally, the non-sentinel messages on the
   channel, in publish order, are the contents the chat iterator yielded, in
   that order and each once, so that they concatenate to the full response;
   [DONE] comes right after the last chunk. *)
C18_ChunksRelayedInOrder ==
  \A t \in Tasks :
    StreamCompleted(t) =>
      /\ NonSentinel(chan[t]) = yielded[t]
      /\ Concat(NonSentinel(chan[t])) = Concat(yielded[t])
      /\ Len(chan[t]) > Len(yielded[t])
      /\ SubSeq(chan[t], 1, Len(yielded[t])) = yielded[t]
      /\ chan[t][Len(yielded[t]) + 1] = DONE

(* a completed stream of three chunks, two of them different and non-empty *)
C18_Witness ==
  \E t \in Tasks :
    /\ pc[t] = "done"
    /\ StreamCompleted(t)
    /\ Len(yielded[t]) = 3
    /\ {"a", "b"} \subseteq Range(yielded[t])

(* the requested model is known to be larger than the GPU's total VRAM: its
   size was read (the pass went on to the lock, manage_models.py:136-142) and
   the VRAM probe did not fail (line 148) *)
TooLarge(t) == Size(req[t]) > TotalVram /\ lk[t] # "unbound" /\ msg[t] # ErrVramProbe

(* C19: a request for a model larger than total VRAM issues no offload and no
   pin, and ends with [ERROR: Model size ... exceeds total VRAM ...] followed
   by [DONE] on its channel. *)
C19_TooLargeIsPermanentError ==
  \A t \in Tasks :
    TooLarge(t) =>
      /\ offIssued[t] = {} /\ toOff[t] = <<>>
      /\ req[t] \notin resident
      /\ pc[t] = "done" => (ret[t] = "error" /\ chan[t] = <<ErrTooLarge, DONE>>)

(* the pass of request t found its model in the list ps() returned *)
AlreadyLoaded(t) == pc[t] = "lq_finally" /\ req[t] \in loaded[t]

(* C20: when ps() lists the requested model, load_or_queue_model returns
   'loaded' having issued no generate call (no pin, no offload) and leaves
   residency as it is; the request goes on to streaming and ends with [DONE]. *)
C20_AlreadyLoadedNoGenerate ==
  /\ [][\A t \in Tasks :
          /\ (pc[t] = "lq_ps" /\ req[t] \in resident /\ pc'[t] # pc[t]) =>
               (AlreadyLoaded(t))' /\ ret'[t] = "loaded" /\ resident' = resident
          /\ (AlreadyLoaded(t) /\ pc'[t] # pc[t]) =>
               /\ offIssued[t] = {} /\ toOff[t] = <<>>
               /\ resident' = resident
               /\ pc'[t] = "s_active"]_vars
  /\ \A t \in Tasks : AlreadyLoaded(t) ~> (pc[t] = "done" /\ HasDone(t))

(* a pass that returns 'loaded' for a model ps() listed *)
C20_Witness ==
  \E t \in Tasks : AlreadyLoaded(t) /\ ret[t] = "loaded" /\ req[t] \in resident

(* the pass of request t has read ps() and the VRAM snapshot, its model is not
   resident and fits in the free VRAM it read *)
DirectFit(t) ==
  /\ pc[t] \in {"lq_direct", "lq_active", "lq_plan", "lq_offload", "lq_final", "lq_finally"}
  /\ vfree[t] >= 0
  /\ req[t] \notin loaded[t]
  /\ Size(req[t]) <= vfree[t]

(* C21: when the requested model is not resident and its size is at most the
   free VRAM (equal included), the pass loads it directly: it goes to the pin
   of line 169, offloads nothing and does not end in insufficient_vram. *)
C21_FitsLoadsDirectly ==
  \A t \in Tasks :
    DirectFit(t) =>
      /\ pc[t] \in {"lq_direct", "lq_finally"}
      /\ offIssued[t] = {} /\ toOff[t] = <<>>
      /\ pc[t] = "lq_finally" => ret[t] # "insufficient_vram"

(* C22: running the orchestrator a second time for the same request, against
   the store and GPU state the first run left, ends with the same memberships
   of every active and reserved set and the same resident models as the first
   run ended with. *)
C22_ReplaySameTerminalState ==
  \A t \in Tasks : (run = 2 /\ pc[t] = "done") => Terminal = first

(* a second run that found the model the first run had loaded, and ended
   with the entry of line 156 in place as the first run did *)
C22_Witness ==
  /\ run = 2
  /\ pc[1] = "done"
  /\ ret[1] = "loaded"
  /\ req[1] \in first.resident
  /\ StreamObjId \in first.queued[req[1]]


(* C23: the relay publishes only non-empty content: a step in which the chat
   iterator yields a chunk whose content is the empty string publishes
   nothing on the request's channel. *)
C23_EmptyChunkNotPublished ==
  [][\A t \in Tasks :
       (/\ Len(yielded'[t]) = Len(yielded[t]) + 1
        /\ yielded'[t][Len(yielded'[t])] = "")
       => chan'[t] = chan[t]]_vars


(* what the planning step of request t has to choose from: the snapshot of
   ps() without the protected models, and whether some part of it frees the
   VRAM that is missing *)
PlanOffloadable(t, prot) == loaded[t] \ prot

NoFeasibleSubset(t, prot) ==
  /\ Size(req[t]) <= TotalVram
  /\ \A S \in SUBSET PlanOffloadable(t, prot) : SumSizes(S) < Size(req[t]) - vfree[t]

(* C24: when the model fits in total VRAM but no subset of the offloadable
   resident models frees at least size minus free VRAM (every resident model
   protected included), the planning step returns insufficient_vram, has
   issued no offload, schedules none, and leaves residency as it was. *)
C24_InfeasiblePlanLeavesResidency ==
  [][\A t \in Tasks :
       (/\ pc[t] = "lq_plan"
        /\ pc'[t] # "lq_plan"
        /\ NoFeasibleSubset(t, protA[t] \cup get_queued_models))
       => /\ pc'[t] = "lq_finally"
          /\ ret'[t] = "insufficient_vram"
          /\ offIssued'[t] = {}
          /\ toOff'[t] = <<>>
          /\ resident' = resident]_vars

(* a pass has returned insufficient_vram although an unprotected model was
   resident, because no part of what was offloadable frees enough *)
C24_Witness ==
  \E t \in Tasks :
    /\ pc[t] = "lq_finally"
    /\ ret[t] = "insufficient_vram"
    /\ msg[t] = ErrCannotFree
    /\ offIssued[t] = {}
    /\ PlanOffloadable(t, protA[t] \cup protQ[t]) # {}
    /\ NoFeasibleSubset(t, protA[t] \cup protQ[t])
    /\ req[t] \notin resident


(* the step after the offload loop of request t, and whether it issued the
   pin: generate(keep_alive=-1) either loads the model or raises *)
AfterOffloads(t) == pc[t] = "lq_final" /\ pc'[t] # "lq_final"

PinIssued(t) == ret'[t] = "loaded" \/ msg'[t] = ErrGenerate \/ resident' # resident

(* C25: after the offloads of a plan, the requested model is pinned only if
   what the successful offloads freed plus the free VRAM read at planning is
   at least its size; when the sum falls short no pin is issued and the
   outcome is insufficient_vram. *)
C25_PinOnlyIfEnoughFreed ==
  [][\A t \in Tasks : AfterOffloads(t) =>
       /\ PinIssued(t) => freed[t] + vfree[t] >= Size(req[t])
       /\ freed[t] + vfree[t] < Size(req[t]) =>
            /\ ret'[t] = "insufficient_vram"
            /\ resident' = resident]_vars

(* an offload of the plan failed, the sum fell short, and the pass ended
   with insufficient_vram and the requested model not resident *)
C25_Witness ==
  \E t \in Tasks :
    /\ pc[t] = "lq_finally"
    /\ offIssued[t] # {}
    /\ freed[t] + vfree[t] < Size(req[t])
    /\ ret[t] = "insufficient_vram"
    /\ req[t] \notin resident


(* the steps of load_or_queue_model that evaluate `vram_usage`: line 137
   once `not model_size` is false (the `or` then evaluates its right side),
   the read of line 147 with the tests of lines 148 and 154, and lines 167,
   206 and 235 *)
Line137EvaluatesVram(t) ==
  /\ pc[t] = "lq_size"
  /\ pc'[t] # "lq_size"
  /\ msg'[t] # ErrSysInfo

ConsultsVram(t) ==
  \/ Line137EvaluatesVram(t)
  \/ /\ pc[t] \in {"lq_vram", "lq_ps", "lq_direct", "lq_plan", "lq_final"}
     /\ pc'[t] # pc[t]

(* C26: in every pass the VRAM snapshot is read only after the GPU lock has
   been acquired, every decision that depends on VRAM is taken with the lock
   acquired, and no VRAM value is consulted before the lock is acquired. *)
C26_VramOnlyUnderLock ==
  [][\A t \in Tasks : ConsultsVram(t) => lk[t] = "held"]_vars


(* C27: load_or_queue_model hands its caller a result whose status is
   loaded, insufficient_vram or error on every path, and never lets an
   exception escape to its caller. *)
C27_AlwaysReturnsStatus ==
  \A t \in Tasks :
    /\ ~lqRaised[t]
    /\ pc[t] \in {"s_active", "p_fail", "done"} =>
         ret[t] \in {"loaded", "insufficient_vram", "error"}


----------------------------------------------------------------------------
(* The stream consumer of the UI (src/main.py:53-80, 159-187) *)

(* main.py:56, pubsub.subscribe(channel_id), reached through
   st.write_stream at line 184 after the task was enqueued at line 165.  The
   publishes of celery_app.py:103-104, 144-145 and 166-167 reach the clients
   subscribed when they are made: what the channel carried before SUBSCRIBE
   is not delivered. *)
Subscribe(t) ==
  /\ pc[t] # "idle"
  /\ cpc[t] = "enqueued"
  /\ cpc' = [cpc EXCEPT ![t] = "listening"]
  /\ subAt' = [subAt EXCEPT ![t] = Len(chan[t])]
  /\ UNCHANGED <<pc, entry, req, storeVars, lk, relVal, planVars, ret, msg, lqRaised, chan,
                 yielded, selVars, janVars, runVars, rd>>

(* main.py:60-76: get_message hands over the next delivered message; the
   loop breaks on '[DONE]' and the finally clause of lines 77-80
   unsubscribes, anything else is yielded.  With nothing delivered the loop
   sleeps and polls again. *)
GetMessage(t) ==
  /\ cpc[t] = "listening"
  /\ subAt[t] + rd[t] < Len(chan[t])
  /\ rd' = [rd EXCEPT ![t] = @ + 1]
  /\ cpc' = [cpc EXCEPT ![t] = IF chan[t][subAt[t] + rd[t] + 1] = DONE THEN "closed"
                                ELSE "listening"]
  /\ UNCHANGED <<pc, entry, req, storeVars, lk, relVal, planVars, ret, msg, lqRaised, chan,
                 yielded, selVars, janVars, runVars, subAt>>

streaming_data(t) == Subscribe(t) \/ GetMessage(t)

(* the messages get_message has handed to the loop of request t *)
Received(t) == SubSeq(chan[t], subAt[t] + 1, subAt[t] + rd[t])

NextConsumer == Next \/ \E t \in Tasks : streaming_data(t)

(* one request and its consumer *)
SpecConsumer == InitOne /\ [][NextConsumer]_vars

(* the worker keeps stepping and the UI script keeps running *)
FairSpecConsumer ==
  /\ SpecConsumer
  /\ WF_vars(Next)
  /\ WF_vars(\E t \in Tasks : streaming_data(t))

(* the messages of a channel up to and including its first [DONE]: what a
   consumer that breaks on [DONE] (main.py:73-74) can receive at most *)
RECURSIVE UpToDone(_)
UpToDone(q) ==
  IF q = <<>> THEN <<>>
  ELSE IF Head(q) = DONE THEN <<DONE>>
  ELSE <<Head(q)>> \o UpToDone(Tail(q))

(* C28: the stream consumer of a submitted request, which subscribes after
   the task was enqueued, receives every message the task publishes for the
   request, up to the [DONE] it terminates on, and does terminate on that
   [DONE], whatever the interleaving of the publishes with the subscribe. *)
C28_ConsumerReceivesAll ==
  \A t \in Tasks :
    pc[t] = "done" ~> (cpc[t] = "closed" /\ Received(t) = UpToDone(chan[t]))

============================================================================
